---- MODULE Spec2Model ----
(***************************************************************************)
(* Authentication and token lifecycle of the Azure DevOps AI Agent:        *)
(*   - backend  AuthenticationService (app/services/auth_service.py) and   *)
(*     the /token endpoint (app/api/auth.py);                              *)
(*   - frontend EntraIDAuthService (frontend/services/auth_service.py),    *)
(*     AuthState and the login callback (frontend/components/auth.py),     *)
(*     ChatSession (frontend/components/chat.py).                          *)
(*                                                                         *)
(* Time is counted in ticks, TicksPerSecond ticks to a second, so that the *)
(* truncation of datetimes to whole seconds done by jwt.encode and the two *)
(* separate datetime.now() readings of create_access_token are visible.    *)
(* Python dicts are functions whose DOMAIN is the set of keys present;     *)
(* Python None is the value None; strings are TLA+ strings, and formatted  *)
(* messages are sequences of the pieces the f-string concatenates.         *)
(***************************************************************************)
EXTENDS Integers, Sequences, FiniteSets, TLC

VARIABLES clock, tenant_id, environment, tokens, last, token_cache, auth_state,
          auth_url, chat_session, in_flight

vars == <<clock, tenant_id, environment, tokens, last, token_cache, auth_state,
         auth_url, chat_session, in_flight>>

(***************************************************************************)
(* Bounds of the model.                                                    *)
(***************************************************************************)
TicksPerSecond == 2
MaxIssueTick == 2
MaxDrift == 1
SlackSeconds == 3
\* settings.jwt_expire_minutes (60 unless configured), kept to one minute
jwt_expire_minutes == 1
\* exp and iat (seconds) of the tokens that clients present
PresentedExp == 1
PresentedIat == 2
MaxTokens == 2
\* a message is sent only while the chat history is shorter than this
MaxMessages == 2

(***************************************************************************)
(* Program constants and configuration.                                    *)
(***************************************************************************)
SecondsPerMinute == 60
jwt_secret == "mock-jwt-secret-key"
jwt_algorithm == "HS256"
OtherSecret == "attacker-secret"
OtherAlgorithm == "HS512"
Issuer == "azure-devops-ai-backend"
MockTenant == <<"mock", "-tenant-id">>
RealTenant == <<"contoso", "-tenant-id">>

MaxClock == (jwt_expire_minutes * SecondsPerMinute + SlackSeconds) * TicksPerSecond

\* No token of the model is issued, becomes valid or expires between
\* QuietFrom and QuietUntil: the clock of the model passes from the one to
\* the other in one step.
QuietFrom == MaxIssueTick + MaxDrift + TicksPerSecond
QuietUntil == (jwt_expire_minutes * SecondsPerMinute - 1) * TicksPerSecond

(***************************************************************************)
(* Python values.                                                          *)
(***************************************************************************)
None == "None"
NoExc == "no exception"
EmptyDict == [k \in {} |-> None]

\* dict.get(k, default)
Get(d, k, default) == IF k \in DOMAIN d THEN d[k] ELSE default

\* the outcome of a call: a returned value or a raised exception
\* (none tells a returned None from a returned object)
Ret(v) == [raised |-> NoExc, none |-> FALSE, value |-> v]
RetNone == [raised |-> NoExc, none |-> TRUE, value |-> None]
Raise(e, msg) == [raised |-> e, none |-> FALSE, value |-> msg]

\* str.startswith on a string kept as the sequence of its pieces
startswith(s, prefix) == Len(s) > 0 /\ s[1] = prefix

\* timedelta(minutes=m), in ticks
timedelta_minutes(m) == m * SecondsPerMinute * TicksPerSecond

(***************************************************************************)
(* Exception classes: class |-> direct base class.                         *)
(***************************************************************************)
ExcParent ==
  [ InvalidSignatureError  |-> "DecodeError",
    DecodeError            |-> "InvalidTokenError",
    ExpiredSignatureError  |-> "InvalidTokenError",
    ImmatureSignatureError |-> "InvalidTokenError",
    InvalidAlgorithmError  |-> "InvalidTokenError",
    InvalidTokenError      |-> "PyJWTError",
    PyJWTError             |-> "Exception",
    ValidationError        |-> "ValueError",
    ValueError             |-> "Exception",
    HTTPException          |-> "Exception",
    RuntimeError           |-> "Exception",
    AuthenticationError    |-> "Exception",
    APIError               |-> "Exception",
    MsalServiceError       |-> "MsalError",
    MsalError              |-> "Exception",
    ConnectionError        |-> "OSError",
    OSError                |-> "Exception" ]

RECURSIVE IsSubclass(_, _)
IsSubclass(c, base) ==
  \/ c = base
  \/ c \in DOMAIN ExcParent /\ IsSubclass(ExcParent[c], base)

\* "except (C1, C2, ...)" catches e
Catches(classes, e) == \E c \in classes : IsSubclass(e, c)

(***************************************************************************)
(* PyJWT.  A JWT is [wf, alg, key, payload]: wf says that the string has   *)
(* the three-segment JWT shape, alg is the header algorithm, key the key   *)
(* the signature was made with, payload the claims.                        *)
(***************************************************************************)
NumericDateClaims == {"exp", "iat", "nbf"}

\* jwt.encode: datetime claims become whole seconds (timegm(utctimetuple()))
jwt_encode(to_encode, key, algorithm) ==
  [ wf      |-> TRUE,
    alg     |-> algorithm,
    key     |-> key,
    payload |-> [k \in DOMAIN to_encode |->
                   IF k \in NumericDateClaims
                     THEN to_encode[k] \div TicksPerSecond
                     ELSE to_encode[k]] ]

\* jwt.decode that does not check the exp claim
jwt_decode_no_exp(token, key, algorithms, verify_signature, now) ==
  IF ~token.wf THEN Raise("DecodeError", <<"Not enough segments">>)
  ELSE IF ~verify_signature THEN Ret(token.payload)
  ELSE IF token.alg \notin algorithms
    THEN Raise("InvalidAlgorithmError", <<"The specified alg value is not allowed">>)
  ELSE IF token.key # key
    THEN Raise("InvalidSignatureError", <<"Signature verification failed">>)
  ELSE IF "iat" \in DOMAIN token.payload /\ token.payload["iat"] * TicksPerSecond > now
    THEN Raise("ImmatureSignatureError", <<"The token is not yet valid (iat)">>)
  ELSE Ret(token.payload)

\* jwt.decode that checks the claims but not the signature
jwt_decode_no_signature(token, key, algorithms, verify_signature, now) ==
  IF ~token.wf THEN Raise("DecodeError", <<"Not enough segments">>)
  ELSE IF ~verify_signature THEN Ret(token.payload)
  ELSE IF "iat" \in DOMAIN token.payload /\ token.payload["iat"] * TicksPerSecond > now
    THEN Raise("ImmatureSignatureError", <<"The token is not yet valid (iat)">>)
  ELSE IF "exp" \in DOMAIN token.payload /\ token.payload["exp"] * TicksPerSecond <= now
    THEN Raise("ExpiredSignatureError", <<"Signature has expired">>)
  ELSE Ret(token.payload)

\* jwt.decode that takes the leeway off the expiry time
jwt_decode_early_expiry(token, key, algorithms, verify_signature, now) ==
  IF ~token.wf THEN Raise("DecodeError", <<"Not enough segments">>)
  ELSE IF ~verify_signature THEN Ret(token.payload)
  ELSE IF token.alg \notin algorithms
    THEN Raise("InvalidAlgorithmError", <<"The specified alg value is not allowed">>)
  ELSE IF token.key # key
    THEN Raise("InvalidSignatureError", <<"Signature verification failed">>)
  ELSE IF "iat" \in DOMAIN token.payload /\ token.payload["iat"] * TicksPerSecond > now
    THEN Raise("ImmatureSignatureError", <<"The token is not yet valid (iat)">>)
  ELSE IF "exp" \in DOMAIN token.payload
          /\ (token.payload["exp"] - 1) * TicksPerSecond <= now
    THEN Raise("ExpiredSignatureError", <<"Signature has expired">>)
  ELSE Ret(token.payload)

\* jwt.decode(token, key, algorithms=..., options={"verify_signature": v})
\* at time now (ticks).  Without signature verification no claim is checked.
jwt_decode(token, key, algorithms, verify_signature, now) ==
  IF ~token.wf THEN Raise("DecodeError", <<"Not enough segments">>)
  ELSE IF ~verify_signature THEN Ret(token.payload)
  ELSE IF token.alg \notin algorithms
    THEN Raise("InvalidAlgorithmError", <<"The specified alg value is not allowed">>)
  ELSE IF token.key # key
    THEN Raise("InvalidSignatureError", <<"Signature verification failed">>)
  ELSE IF "iat" \in DOMAIN token.payload /\ token.payload["iat"] * TicksPerSecond > now
    THEN Raise("ImmatureSignatureError", <<"The token is not yet valid (iat)">>)
  ELSE IF "exp" \in DOMAIN token.payload /\ token.payload["exp"] * TicksPerSecond <= now
    THEN Raise("ExpiredSignatureError", <<"Signature has expired">>)
  ELSE Ret(token.payload)

(***************************************************************************)
(* app/models/auth.py                                                      *)
(***************************************************************************)
\* User(id=..., email=..., name=..., preferred_username=...): id, email and
\* name are declared str, preferred_username Optional[str]
User(id, email, name, preferred_username) ==
  IF id = None \/ email = None \/ name = None
    THEN Raise("ValidationError", <<"Input should be a valid string">>)
    ELSE Ret([id |-> id, email |-> email, name |-> name,
              preferred_username |-> preferred_username])

Token(access_token, token_type, expires_in) ==
  [access_token |-> access_token, token_type |-> token_type,
   expires_in |-> expires_in]

(***************************************************************************)
(* AuthenticationService                                                   *)
(***************************************************************************)
\* create_access_token that signs the name in place of the email
create_access_token_email_lost(user_data, now_exp, now_iat) ==
  LET expire == now_exp + timedelta_minutes(jwt_expire_minutes)
      to_encode ==
        [ sub   |-> Get(user_data, "sub", None),
          email |-> Get(user_data, "name", None),
          name  |-> Get(user_data, "name", None),
          exp   |-> expire,
          iat   |-> now_iat,
          iss   |-> Issuer ]
      encoded_jwt == jwt_encode(to_encode, jwt_secret, jwt_algorithm)
  IN Token(encoded_jwt, "bearer", jwt_expire_minutes * SecondsPerMinute)

\* create_access_token; now_exp and now_iat are the two readings of
\* datetime.now(UTC), in the order the code takes them
create_access_token(user_data, now_exp, now_iat) ==
  LET expire == now_exp + timedelta_minutes(jwt_expire_minutes)
      to_encode ==
        [ sub   |-> Get(user_data, "sub", None),
          email |-> Get(user_data, "email", None),
          name  |-> Get(user_data, "name", None),
          exp   |-> expire,
          iat   |-> now_iat,
          iss   |-> Issuer ]
      encoded_jwt == jwt_encode(to_encode, jwt_secret, jwt_algorithm)
  IN Token(encoded_jwt, "bearer", jwt_expire_minutes * SecondsPerMinute)

\* an except clause that names the PyJWT errors only
VerifyCaught_jwt_only == {"DecodeError", "InvalidTokenError"}

\* the classes of the except clause of verify_token
VerifyCaught == {"DecodeError", "InvalidTokenError", "ValueError", "Exception"}

\* verify_token that defaults a missing subject to the empty string
verify_token_body_default_sub(token, now) ==
  LET decoded == jwt_decode(token, jwt_secret, {jwt_algorithm}, TRUE, now)
      payload == decoded.value
      user_id == Get(payload, "sub", "")
  IN IF decoded.raised # NoExc THEN decoded
     ELSE IF user_id = None THEN RetNone
     ELSE User(user_id, Get(payload, "email", ""), Get(payload, "name", ""),
               Get(payload, "preferred_username", None))

\* the try block of verify_token
verify_token_body(token, now) ==
  LET decoded == jwt_decode(token, jwt_secret, {jwt_algorithm}, TRUE, now)
      payload == decoded.value
      user_id == Get(payload, "sub", None)
  IN IF decoded.raised # NoExc THEN decoded
     ELSE IF user_id = None THEN RetNone
     ELSE User(user_id, Get(payload, "email", ""), Get(payload, "name", ""),
               Get(payload, "preferred_username", None))

verify_token(token, now) ==
  LET r == verify_token_body(token, now)
  IN IF r.raised # NoExc /\ Catches(VerifyCaught, r.raised) THEN RetNone ELSE r


MockUserInfo ==
  [sub |-> "mock-user-123", email |-> "mock@example.com", name |-> "Mock User",
   preferred_username |-> "mockuser"]

\* validate_azure_token without the unique_name fallback
validate_azure_token_body_email_only(tenant, token, now) ==
  IF startswith(tenant, "mock") THEN Ret(MockUserInfo)
  ELSE
    LET decoded == jwt_decode(token, None, {}, FALSE, now)
        unverified_payload == decoded.value
    IN IF decoded.raised # NoExc THEN decoded
       ELSE Ret([ sub   |-> Get(unverified_payload, "sub", None),
                  email |-> Get(unverified_payload, "email", None),
                  name  |-> Get(unverified_payload, "name", None),
                  preferred_username |->
                    Get(unverified_payload, "preferred_username", None) ])

\* the try block of validate_azure_token
validate_azure_token_body(tenant, token, now) ==
  IF startswith(tenant, "mock") THEN Ret(MockUserInfo)
  ELSE
    LET decoded == jwt_decode(token, None, {}, FALSE, now)
        unverified_payload == decoded.value
    IN IF decoded.raised # NoExc THEN decoded
       ELSE Ret([ sub   |-> Get(unverified_payload, "sub", None),
                  email |-> Get(unverified_payload, "email",
                                Get(unverified_payload, "unique_name", None)),
                  name  |-> Get(unverified_payload, "name", None),
                  preferred_username |->
                    Get(unverified_payload, "preferred_username", None) ])

validate_azure_token(tenant, token, now) ==
  LET r == validate_azure_token_body(tenant, token, now)
  IN IF r.raised # NoExc /\ Catches({"Exception"}, r.raised) THEN RetNone ELSE r

\* "not user_info": None or an empty dict
Falsy(out) == out.none \/ DOMAIN out.value = {}

get_user_from_azure_token(tenant, azure_token, now) ==
  LET user_info == validate_azure_token(tenant, azure_token, now)
  IN IF user_info.raised # NoExc THEN user_info
     ELSE IF Falsy(user_info) THEN RetNone
     ELSE User(Get(user_info.value, "sub", ""), Get(user_info.value, "email", ""),
               Get(user_info.value, "name", ""),
               Get(user_info.value, "preferred_username", None))

HTTP_401_UNAUTHORIZED == 401
HTTP_500_INTERNAL_SERVER_ERROR == 500
HTTP_200_OK == 200

HTTPException(status_code, detail) ==
  Raise("HTTPException", [status_code |-> status_code, detail |-> detail])

\* authenticate_user that reports an unresolved credential as a plain error
authenticate_user_value_error(tenant, azure_token, now_exp, now_iat) ==
  LET user_info == validate_azure_token(tenant, azure_token, now_exp)
  IN IF user_info.raised # NoExc THEN user_info
     ELSE IF Falsy(user_info)
       THEN Raise("ValueError", <<"Invalid authentication token">>)
     ELSE Ret(create_access_token(user_info.value, now_exp, now_iat))

authenticate_user(tenant, azure_token, now_exp, now_iat) ==
  LET user_info == validate_azure_token(tenant, azure_token, now_exp)
  IN IF user_info.raised # NoExc THEN user_info
     ELSE IF Falsy(user_info)
       THEN HTTPException(HTTP_401_UNAUTHORIZED, <<"Invalid authentication token">>)
     ELSE Ret(create_access_token(user_info.value, now_exp, now_iat))

(***************************************************************************)
(* app/api/auth.py and the exception handlers of the application           *)
(***************************************************************************)
\* POST /token
login(tenant, azure_token, now_exp, now_iat) ==
  LET token == authenticate_user(tenant, azure_token, now_exp, now_iat)
  IN IF token.raised = NoExc THEN token
     ELSE IF Catches({"HTTPException"}, token.raised) THEN token
     ELSE IF Catches({"Exception"}, token.raised)
       THEN HTTPException(HTTP_500_INTERNAL_SERVER_ERROR,
                          <<"Authentication service error">>)
     ELSE token

\* the dependency of the protected endpoints: the identity of the bearer
\* token, or an unauthorized error when verification returns None
current_identity(session_token, now) ==
  LET user == verify_token(session_token, now)
  IN IF user.raised # NoExc THEN user
     ELSE IF user.none
       THEN HTTPException(HTTP_401_UNAUTHORIZED, <<"Could not validate credentials">>)
     ELSE user

\* POST /refresh that takes the e-mail address from the wrong attribute
refresh_token_name_as_email(current_user, now_exp, now_iat) ==
  LET user_data == [ sub   |-> current_user.id,
                     email |-> current_user.name,
                     name  |-> current_user.name,
                     preferred_username |-> current_user.preferred_username ]
  IN Ret(create_access_token(user_data, now_exp, now_iat))

\* POST /refresh, once the dependency has given current_user
refresh_token(current_user, now_exp, now_iat) ==
  LET user_data == [ sub   |-> current_user.id,
                     email |-> current_user.email,
                     name  |-> current_user.name,
                     preferred_username |-> current_user.preferred_username ]
  IN Ret(create_access_token(user_data, now_exp, now_iat))

\* the status code of the response: http_exception_handler answers an
\* HTTPException with its status_code, general_exception_handler answers
\* any other exception with 500
status_code(out) ==
  IF out.raised = NoExc THEN HTTP_200_OK
  ELSE IF Catches({"HTTPException"}, out.raised) THEN out.value.status_code
  ELSE HTTP_500_INTERNAL_SERVER_ERROR

(***************************************************************************)
(* EntraIDAuthService (frontend/services/auth_service.py)                  *)
(***************************************************************************)
\* d[k] = v on a dict
SetItem(d, k, v) == [x \in DOMAIN d \cup {k} |-> IF x = k THEN v ELSE d[x]]

\* del d[k] when k is a key of d
DelItem(d, k) == [x \in DOMAIN d \ {k} |-> d[x]]

\* truth value of a string or None ("if user_id:")
Truthy(v) == v # None /\ v # ""

_extract_user_id(access_token) ==
  LET decoded == jwt_decode(access_token, None, {}, FALSE, 0)
  IN IF decoded.raised # NoExc THEN None
     ELSE Get(decoded.value, "sub", None)

\* the token request that acquire_token_by_authorization_code sends to the
\* identity provider
AuthorizationCodeRequest(code) == [grant_type |-> "authorization_code", code |-> code]

\* exchange_code_for_token that asks the provider again after an error answer
exchange_code_for_token_body_retry(cache, code, state, response) ==
  IF response.raised # NoExc
    THEN [out |-> response, cache |-> cache,
          requests |-> <<AuthorizationCodeRequest(code)>>]
  ELSE
    LET result == response.value
        error_desc == Get(result, "error_description", "Unknown error")
        user_id == _extract_user_id(Get(result, "access_token", None))
    IN IF "access_token" \notin DOMAIN result
         THEN [ out   |-> Raise("AuthenticationError",
                                <<"Token exchange failed: ", error_desc>>),
                cache |-> cache,
                requests |-> <<AuthorizationCodeRequest(code),
                               AuthorizationCodeRequest(code)>> ]
         ELSE [ out   |-> Ret(result),
                cache |-> IF Truthy(user_id) THEN SetItem(cache, user_id, result)
                                             ELSE cache,
                requests |-> <<AuthorizationCodeRequest(code)>> ]

\* exchange_code_for_token whose cache holds the newest login only
exchange_code_for_token_body_single_entry(cache, code, state, response) ==
  IF response.raised # NoExc
    THEN [out |-> response, cache |-> cache,
          requests |-> <<AuthorizationCodeRequest(code)>>]
  ELSE
    LET result == response.value
        error_desc == Get(result, "error_description", "Unknown error")
        user_id == _extract_user_id(Get(result, "access_token", None))
    IN IF "access_token" \notin DOMAIN result
         THEN [ out   |-> Raise("AuthenticationError",
                                <<"Token exchange failed: ", error_desc>>),
                cache |-> cache,
                requests |-> <<AuthorizationCodeRequest(code)>> ]
         ELSE [ out   |-> Ret(result),
                cache |-> IF Truthy(user_id) THEN SetItem(EmptyDict, user_id, result)
                                             ELSE cache,
                requests |-> <<AuthorizationCodeRequest(code)>> ]

\* the try block of exchange_code_for_token; response is the outcome of
\* client_app.acquire_token_by_authorization_code(code, scopes, redirect_uri).
\* Gives the outcome, the token cache it leaves and the token requests sent
\* to the identity provider.
exchange_code_for_token_body(cache, code, state, response) ==
  IF response.raised # NoExc
    THEN [out |-> response, cache |-> cache,
          requests |-> <<AuthorizationCodeRequest(code)>>]
  ELSE
    LET result == response.value
        error_desc == Get(result, "error_description", "Unknown error")
        user_id == _extract_user_id(Get(result, "access_token", None))
    IN IF "access_token" \notin DOMAIN result
         THEN [ out   |-> Raise("AuthenticationError",
                                <<"Token exchange failed: ", error_desc>>),
                cache |-> cache,
                requests |-> <<AuthorizationCodeRequest(code)>> ]
         ELSE [ out   |-> Ret(result),
                cache |-> IF Truthy(user_id) THEN SetItem(cache, user_id, result)
                                             ELSE cache,
                requests |-> <<AuthorizationCodeRequest(code)>> ]

exchange_code_for_token(cache, code, state, response) ==
  LET r == exchange_code_for_token_body(cache, code, state, response)
  IN IF r.out.raised # NoExc /\ Catches({"Exception"}, r.out.raised)
       THEN [ out   |-> Raise("AuthenticationError",
                              <<"Token exchange failed: ">> \o r.out.value),
              cache |-> r.cache,
              requests |-> r.requests ]
       ELSE r

\* client_app.get_authorization_request_url(scopes, state, redirect_uri):
\* the URL carries the state; fault is the exception the library raises, if any
get_authorization_request_url(state, fault) ==
  IF fault # NoExc THEN Raise(fault, <<"authority unreachable">>)
  ELSE Ret([authority |-> "login.microsoftonline.com", state |-> state])

\* "a or b" on strings and None
Or(a, b) == IF Truthy(a) THEN a ELSE b

\* get_auth_url that lets the library's exception through
get_auth_url_uncaught(state, fault) ==
  get_authorization_request_url(Or(state, "default-state"), fault)

get_auth_url(state, fault) ==
  LET auth_url_ == get_authorization_request_url(Or(state, "default-state"), fault)
  IN IF auth_url_.raised # NoExc /\ Catches({"Exception"}, auth_url_.raised)
       THEN Raise("AuthenticationError",
                  <<"Failed to generate auth URL: ">> \o auth_url_.value)
       ELSE auth_url_

\* the token request that acquire_token_by_refresh_token sends
RefreshTokenRequest(refresh_token_) ==
  [grant_type |-> "refresh_token", refresh_token |-> refresh_token_]

\* refresh_token that drops a cache entry it cannot refresh
auth_service_refresh_token_evicts(cache, user_id, response) ==
  IF user_id \notin DOMAIN cache \/ "refresh_token" \notin DOMAIN cache[user_id]
    THEN [out |-> RetNone, cache |-> DelItem(cache, user_id), requests |-> <<>>]
  ELSE
    LET requests == <<RefreshTokenRequest(cache[user_id]["refresh_token"])>>
    IN IF response.raised # NoExc
         THEN IF Catches({"Exception"}, response.raised)
                THEN [out |-> RetNone, cache |-> cache, requests |-> requests]
                ELSE [out |-> response, cache |-> cache, requests |-> requests]
       ELSE IF "access_token" \in DOMAIN response.value
         THEN [ out |-> response,
                cache |-> SetItem(cache, user_id, response.value),
                requests |-> requests ]
       ELSE [out |-> RetNone, cache |-> cache, requests |-> requests]

\* refresh_token that returns the refreshed result without caching it
auth_service_refresh_token_uncached(cache, user_id, response) ==
  IF user_id \notin DOMAIN cache \/ "refresh_token" \notin DOMAIN cache[user_id]
    THEN [out |-> RetNone, cache |-> cache, requests |-> <<>>]
  ELSE
    LET requests == <<RefreshTokenRequest(cache[user_id]["refresh_token"])>>
    IN IF response.raised # NoExc
         THEN IF Catches({"Exception"}, response.raised)
                THEN [out |-> RetNone, cache |-> cache, requests |-> requests]
                ELSE [out |-> response, cache |-> cache, requests |-> requests]
       ELSE IF "access_token" \in DOMAIN response.value
         THEN [out |-> response, cache |-> cache, requests |-> requests]
       ELSE [out |-> RetNone, cache |-> cache, requests |-> requests]

\* EntraIDAuthService.refresh_token(user_id); response is the outcome of
\* client_app.acquire_token_by_refresh_token(refresh_token, scopes)
auth_service_refresh_token(cache, user_id, response) ==
  IF user_id \notin DOMAIN cache \/ "refresh_token" \notin DOMAIN cache[user_id]
    THEN [out |-> RetNone, cache |-> cache, requests |-> <<>>]
  ELSE
    LET requests == <<RefreshTokenRequest(cache[user_id]["refresh_token"])>>
    IN IF response.raised # NoExc
         THEN IF Catches({"Exception"}, response.raised)
                THEN [out |-> RetNone, cache |-> cache, requests |-> requests]
                ELSE [out |-> response, cache |-> cache, requests |-> requests]
       ELSE IF "access_token" \in DOMAIN response.value
         THEN [ out |-> response,
                cache |-> SetItem(cache, user_id, response.value),
                requests |-> requests ]
       ELSE [out |-> RetNone, cache |-> cache, requests |-> requests]

\* settings.azure_client_id of the frontend
azure_client_id == "frontend-client-id"

\* the try block of validate_token
validate_token_body(access_token, now) ==
  LET decoded_token == jwt_decode(access_token, None, {}, FALSE, now)
  IN IF decoded_token.raised # NoExc THEN decoded_token
     ELSE IF Get(decoded_token.value, "aud", None) # azure_client_id
       THEN Raise("AuthenticationError", <<"Invalid token audience">>)
     ELSE decoded_token

\* validate_token whose last handler is missing
validate_token_unwrapped(access_token, now) ==
  LET r == validate_token_body(access_token, now)
  IN IF r.raised = NoExc THEN r
     ELSE IF Catches({"ExpiredSignatureError"}, r.raised)
       THEN Raise("AuthenticationError", <<"Token has expired">>)
     ELSE r

validate_token(access_token, now) ==
  LET r == validate_token_body(access_token, now)
  IN IF r.raised = NoExc THEN r
     ELSE IF Catches({"ExpiredSignatureError"}, r.raised)
       THEN Raise("AuthenticationError", <<"Token has expired">>)
     ELSE IF Catches({"InvalidTokenError"}, r.raised)
       THEN Raise("AuthenticationError", <<"Invalid token: ">> \o r.value)
     ELSE IF Catches({"Exception"}, r.raised)
       THEN Raise("AuthenticationError", <<"Token validation failed: ">> \o r.value)
     ELSE r

get_user_info(access_token, now) ==
  LET decoded_token == validate_token(access_token, now)
      d == decoded_token.value
  IN IF decoded_token.raised # NoExc
       THEN IF Catches({"Exception"}, decoded_token.raised)
              THEN Raise("AuthenticationError",
                         <<"Failed to get user info: ">> \o decoded_token.value)
              ELSE decoded_token
     ELSE Ret([ user_id     |-> Get(d, "sub", None),
                email       |-> Or(Get(d, "email", None),
                                   Get(d, "preferred_username", None)),
                name        |-> Get(d, "name", None),
                given_name  |-> Get(d, "given_name", None),
                family_name |-> Get(d, "family_name", None),
                tenant_id   |-> Get(d, "tid", None),
                roles       |-> Get(d, "roles", <<>>),
                groups      |-> Get(d, "groups", <<>>) ])

\* logout that clears the whole cache
auth_service_logout_clears_all(cache, user_id) ==
  IF user_id \in DOMAIN cache THEN EmptyDict ELSE cache

\* EntraIDAuthService.logout(user_id): gives the token cache it leaves
auth_service_logout(cache, user_id) ==
  IF user_id \in DOMAIN cache THEN DelItem(cache, user_id) ELSE cache

(***************************************************************************)
(* AuthState and the login callback (frontend/components/auth.py)          *)
(* An Optional attribute is a sequence: <<>> for None, <<v>> for v.        *)
(***************************************************************************)
Nothing == <<>>
Some(v) == <<v>>

\* AuthState.__init__
AuthState ==
  [authenticated |-> FALSE, user_info |-> Nothing, access_token |-> Nothing]

\* AuthState.login(access_token, user_info)
AuthState_login(access_token, user_info) ==
  [authenticated |-> TRUE, access_token |-> Some(access_token),
   user_info |-> Some(user_info)]

\* AuthState.logout that keeps the token
AuthState_logout_keeps_token(self, cache) ==
  [ auth_state |-> [authenticated |-> FALSE, access_token |-> self.access_token,
                    user_info |-> self.user_info],
    cache |-> IF self.user_info # Nothing /\ DOMAIN self.user_info[1] # {}
                THEN auth_service_logout(cache,
                                         Get(self.user_info[1], "user_id", ""))
                ELSE cache ]

\* AuthState.logout(): gives the state and the token cache it leaves
AuthState_logout(self, cache) ==
  [ auth_state |-> [authenticated |-> FALSE, access_token |-> Nothing,
                    user_info |-> Nothing],
    cache |-> IF self.user_info # Nothing /\ DOMAIN self.user_info[1] # {}
                THEN auth_service_logout(cache,
                                         Get(self.user_info[1], "user_id", ""))
                ELSE cache ]

is_authenticated(self) == self.authenticated /\ self.access_token # Nothing

\* email.split("@")[0] on the addresses of the model
split_at ==
  [ x \in {"u1@example.com", "user.one@contoso.com"} |->
      IF x = "u1@example.com" THEN "u1" ELSE "user.one" ]

get_user_display_name(self) ==
  IF self.user_info = Nothing \/ DOMAIN self.user_info[1] = {} THEN "Guest"
  ELSE LET name == Get(self.user_info[1], "name", None)
           email == Get(self.user_info[1], "email", None)
       IN IF Truthy(name) THEN name
          ELSE IF Truthy(email) THEN split_at[email]
          ELSE "User"

\* what handle_auth_callback leaves: the (success, message) it returns, the
\* AuthState, the token cache and the token requests sent to the provider
CallbackResult(success, message, state, cache, requests) ==
  [success |-> success, message |-> message, auth_state |-> state,
   cache |-> cache, requests |-> requests]

\* handle_auth_callback(url): url is the callback URL, empty or with the
\* query parameters parse_qs finds; response is what the identity provider
\* answers to the token request, if one is sent
handle_auth_callback(self, cache, url, response, now) ==
  LET query_params == url.query
      code == Get(query_params, "code", None)
      state == Get(query_params, "state", None)
      error == Get(query_params, "error", None)
      error_desc == Get(query_params, "error_description", "Unknown error")
      exchanged == exchange_code_for_token(cache, code, state, response)
      token_result == exchanged.out
      user_info == get_user_info(token_result.value["access_token"], now)
      failure(e) ==
        IF Catches({"AuthenticationError"}, e.raised)
          THEN <<"Authentication failed: ">> \o e.value
          ELSE <<"Authentication failed due to technical error">>
  IN IF url.empty
       THEN CallbackResult(FALSE, <<"No callback URL provided">>, self, cache, <<>>)
     ELSE IF Truthy(error)
       THEN CallbackResult(FALSE, <<"Authentication failed: ", error_desc>>,
                           self, cache, <<>>)
     ELSE IF ~Truthy(code)
       THEN CallbackResult(FALSE, <<"No authorization code received">>,
                           self, cache, <<>>)
     ELSE IF token_result.raised # NoExc
       THEN CallbackResult(FALSE, failure(token_result), self, exchanged.cache,
                           exchanged.requests)
     ELSE IF "access_token" \notin DOMAIN token_result.value
       THEN CallbackResult(FALSE, <<"Failed to obtain access token">>, self,
                           exchanged.cache, exchanged.requests)
     ELSE IF user_info.raised # NoExc
       THEN CallbackResult(FALSE, failure(user_info), self, exchanged.cache,
                           exchanged.requests)
     ELSE LET logged_in == AuthState_login(token_result.value["access_token"],
                                           user_info.value)
          IN CallbackResult(TRUE,
                            <<"Welcome, ", get_user_display_name(logged_in), "!">>,
                            logged_in, exchanged.cache, exchanged.requests)

(***************************************************************************)
(* ChatSession and the API client (frontend/components/chat.py,            *)
(* frontend/services/api_client.py)                                        *)
(***************************************************************************)
\* BackendAPIClient.__init__(access_token)
BackendAPIClient(access_token) == [access_token |-> access_token]

\* BackendAPIClient._get_headers(): the Authorization header is there when
\* the client has a token
_get_headers(self) ==
  IF self.access_token # Nothing
    THEN [Accept |-> "application/json", Authorization |-> self.access_token[1]]
    ELSE [Accept |-> "application/json"]

\* the request send_chat_message posts to /chat/message
ChatRequest(self, message, conversation_id, context) ==
  [ url     |-> "/chat/message",
    headers |-> _get_headers(self),
    payload |-> [message |-> message, conversation_id |-> conversation_id,
                 context |-> context] ]

\* the request health_check sends to /health
HealthRequest == [url |-> "/health", headers |-> [Accept |-> "application/json"]]

\* ChatMessage(role, content)
ChatMessage(role, content) == [role |-> role, content |-> content]

\* ChatSession.__init__
ChatSession == [messages |-> <<>>, conversation_id |-> Nothing, api_client |-> Nothing]

\* ChatSession.initialize_api_client()
initialize_api_client(self, state) ==
  [self EXCEPT !.api_client = IF is_authenticated(state)
                                THEN Some(BackendAPIClient(state.access_token))
                                ELSE Nothing]

\* ChatSession.add_message(role, content)
add_message(self, role, content) ==
  [self EXCEPT !.messages = Append(self.messages, ChatMessage(role, content))]

\* the texts are the code's without their leading mark
NotAuthenticatedText == <<"Error: Not authenticated. Please log in first.">>

\* send_message up to the await of the backend's answer: gives the session
\* it leaves, the request it sent if it sent one, and what it returns if it
\* returns at once
send_message_begin(self, state, user_message) ==
  IF self.api_client = Nothing
    THEN [session |-> self, request |-> Nothing, out |-> Some(Ret(NotAuthenticatedText))]
    ELSE [ session |-> add_message(self, "user", user_message),
           request |-> Some(ChatRequest(
                              self.api_client[1], user_message, self.conversation_id,
                              [user_id |-> IF state.user_info # Nothing
                                                /\ DOMAIN state.user_info[1] # {}
                                             THEN Get(state.user_info[1], "user_id", None)
                                             ELSE None])),
           out |-> Nothing ]

\* send_message from the backend's answer on: response is the outcome of
\* api_client.send_chat_message(...)
send_message_end(self, response) ==
  IF response.raised = NoExc
    THEN LET response_data == Get(response.value, "data", EmptyDict)
             ai_response == Get(response_data, "response",
                                <<"Sorry, I couldn't process your request.">>)
         IN [ session |-> [add_message(self, "assistant", ai_response) EXCEPT
                             !.conversation_id =
                               IF "conversation_id" \in DOMAIN response_data
                                 THEN Some(response_data["conversation_id"])
                                 ELSE Nothing],
              out |-> Ret(ai_response) ]
  ELSE IF Catches({"APIError"}, response.raised)
    THEN LET error_msg == <<"API Error: ">> \o response.value
         IN [session |-> add_message(self, "assistant", error_msg), out |-> Ret(error_msg)]
  ELSE IF Catches({"Exception"}, response.raised)
    THEN LET error_msg == <<"Unexpected error: ">> \o response.value
         IN [session |-> add_message(self, "assistant", error_msg), out |-> Ret(error_msg)]
  ELSE [session |-> self, out |-> response]

\* ChatSession.clear_history()
clear_history(self) == [self EXCEPT !.messages = <<>>, !.conversation_id = Nothing]

(***************************************************************************)
(* Start of the backend (app/core/config.py).  An environment is a dict of *)
(* the variables that are set, each to a string that may be empty; a       *)
(* dotenv file is such a dict too.                                         *)
(***************************************************************************)
RequiredVars == {"AZURE_TENANT_ID", "AZURE_CLIENT_ID", "JWT_SECRET_KEY"}

\* the sources pydantic-settings reads: a variable of the environment wins
\* over the same variable of the dotenv file
Sources(environ, env_file) ==
  [k \in DOMAIN environ \cup DOMAIN env_file |->
     IF k \in DOMAIN environ THEN environ[k] ELSE env_file[k]]

\* Settings(): the fields without a default must be given; a str field takes
\* any string
Settings(environ, env_file) ==
  LET given == Sources(environ, env_file)
  IN IF RequiredVars \subseteq DOMAIN given
       THEN Ret([ azure_tenant_id |-> given["AZURE_TENANT_ID"],
                  azure_client_id |-> given["AZURE_CLIENT_ID"],
                  jwt_secret_key  |-> given["JWT_SECRET_KEY"] ])
       ELSE Raise("ValidationError", <<"Field required">>)

RequiredConfigurationMissing(e) ==
  Raise("RuntimeError",
        <<"Required configuration missing. Please set the following environment variables: ",
          "AZURE_TENANT_ID, AZURE_CLIENT_ID, JWT_SECRET_KEY. ">> \o e.value)

\* the module-level "settings = Settings()" with its fallback; dot_env is the
\* content of .env, env_test that of .env.test, Nothing when there is no
\* such file
load_settings(environ, dot_env, env_test) ==
  LET first == Settings(environ, dot_env)
  IN IF first.raised = NoExc THEN first
     ELSE IF env_test # Nothing
       THEN LET second == Settings(environ, env_test[1])
            IN IF second.raised = NoExc THEN second
               ELSE RequiredConfigurationMissing(first)
     ELSE RequiredConfigurationMissing(first)

(***************************************************************************)
(* Inputs.                                                                 *)
(***************************************************************************)
\* user_data handed to create_access_token
UserDatas ==
  { [sub |-> sub, email |-> email, name |-> name] :
      sub \in {None, "u1"}, email \in {None, "", "u1@example.com"},
      name \in {None, "", "User One"} }

\* claims of a token presented by a client that the service did not issue:
\* each claim absent, null or set
Absent == "absent"
PresentedSub == {Absent, None, "u1"}
PresentedEmail == {Absent, None, "u1@example.com"}
PresentedName == {Absent, None, "User One"}

Payload(sub, email, name, with_exp, with_iat) ==
  LET s == [sub |-> sub, email |-> email, name |-> name]
      n == [exp |-> PresentedExp, iat |-> PresentedIat]
      keys == {k \in DOMAIN s : s[k] # Absent}
              \cup (IF with_exp THEN {"exp"} ELSE {})
              \cup (IF with_iat THEN {"iat"} ELSE {})
  IN [k \in keys |-> IF k \in DOMAIN n THEN n[k] ELSE s[k]]

PresentedPayloads ==
  { Payload(sub, email, name, with_exp, with_iat) :
      sub \in PresentedSub, email \in PresentedEmail, name \in PresentedName,
      with_exp \in BOOLEAN, with_iat \in BOOLEAN }

Malformed == [wf |-> FALSE, alg |-> None, key |-> None, payload |-> EmptyDict]

PresentedTokens ==
  {Malformed} \cup
  { [wf |-> TRUE, alg |-> a, key |-> k, payload |-> p] :
      a \in {jwt_algorithm, OtherAlgorithm}, k \in {jwt_secret, OtherSecret},
      p \in PresentedPayloads }

\* external (Entra ID) tokens handed to login: each claim absent or set
AzureKey == "entra-signing-key"
AzureAlgorithm == "RS256"

AzurePayload(sub, email, unique_name, name, preferred_username) ==
  LET s == [sub |-> sub, email |-> email, unique_name |-> unique_name,
            name |-> name, preferred_username |-> preferred_username]
  IN [k \in {k \in DOMAIN s : s[k] # Absent} |-> s[k]]

AzurePayloads ==
  { AzurePayload(sub, email, unique_name, name, preferred_username) :
      sub \in {Absent, "u1"}, email \in {Absent, None, "u1@example.com"},
      unique_name \in {Absent, "u1@contoso.com"}, name \in {Absent, "User One"},
      preferred_username \in {Absent, "user.one"} }

AzureTokens ==
  {Malformed} \cup
  { [wf |-> TRUE, alg |-> AzureAlgorithm, key |-> k, payload |-> p] :
      k \in {AzureKey, OtherSecret}, p \in AzurePayloads }

\* access tokens of the identity provider: expiring at PresentedExp, for the
\* frontend's client id, for another one, or without audience; of two users,
\* or without subject
AccessTokenPayload(sub, aud) ==
  LET s == [sub |-> sub, aud |-> aud, name |-> "User One", exp |-> Absent]
  IN [k \in {k \in DOMAIN s : k = "exp" \/ s[k] # Absent} |->
        IF k = "exp" THEN PresentedExp ELSE s[k]]

AccessTokenPayloads ==
  { AccessTokenPayload("u1", aud) : aud \in {Absent, azure_client_id, "other-client-id"} }
  \cup { AccessTokenPayload("u2", azure_client_id),
         AccessTokenPayload(Absent, azure_client_id) }

AccessToken(p) == [wf |-> TRUE, alg |-> AzureAlgorithm, key |-> AzureKey, payload |-> p]

AccessTokens == {Malformed} \cup { AccessToken(p) : p \in AccessTokenPayloads }

\* what the identity provider answers to a token request: an access token,
\* with a refresh token when the offline scope was granted
TokenResults ==
  { [access_token |-> t, refresh_token |-> "refresh-1"] : t \in AccessTokens }
  \cup { [access_token |-> AccessToken(AccessTokenPayload("u1", azure_client_id))] }

ErrorResults ==
  { [error |-> "invalid_grant", error_description |-> "Invalid authorization code"],
    [error |-> "invalid_grant"],
    [error |-> "invalid_client", error_description |-> "Invalid client secret"] }

\* exceptions the MSAL calls raise
LibraryFaults == {"ConnectionError", "MsalServiceError"}

ProviderResponses ==
  { Ret(r) : r \in TokenResults \cup ErrorResults }
  \cup { Raise(f, <<"Connection refused">>) : f \in LibraryFaults }

\* the answers the provider can give at time now: the access token it issues
\* has its expiry ahead
FreshResponses(now) ==
  { r \in ProviderResponses :
      ( r.raised = NoExc /\ "access_token" \in DOMAIN r.value
        /\ r.value["access_token"].wf )
      => r.value["access_token"].payload["exp"] * TicksPerSecond > now }

UserIds == {"u1", "u2"}

\* callback URLs: empty, or with the query parameters the browser brings
CallbackQueries ==
  { [code |-> "code-1", state |-> st] : st \in {"state-1", "forged-state"} }
  \cup { [code |-> "code-1"], [state |-> "state-1"], [error |-> "access_denied"],
         [error |-> "access_denied", error_description |-> "User cancelled"] }

\* the provider's answer when there is nobody to answer: no request is sent
NoResponse == Raise("ConnectionError", <<"Connection refused">>)

CallbackUrls ==
  { [empty |-> TRUE, query |-> EmptyDict] }
  \cup { [empty |-> FALSE, query |-> q] : q \in CallbackQueries }

Codes == {"code-1"}
States == {None, "state-1"}

\* the worker threads that run the event handlers of the chat (max_threads
\* is 10; two are enough to overlap)
Threads == {1, 2}

\* what the user types: nothing but blanks, or a message
UserMessages == {"", "m1", "m2"}

\* the answer of the backend's chat endpoint to a message
Reply(message) == <<"reply to ", message>>

\* outcomes of api_client.send_chat_message(message, ...): the backend's
\* body with the reply, a body without data, or an APIError
BackendResponses(message) ==
  { Ret([data |-> [response |-> Reply(message), conversation_id |-> "conv-1"]]),
    Ret(EmptyDict),
    Raise("APIError", <<"Chat API error: ", "401">>) }

\* outcomes of api_client.health_check()
HealthResponses ==
  { Ret([status |-> "healthy"]), Ret([status |-> "degraded"]),
    Raise("APIError", <<"Backend health check failed: ", "503">>) }

\* environments and dotenv files: each required variable unset, empty or set
Environs ==
  { [k \in ks |-> IF k \in empty THEN "" ELSE "configured"] :
      <<ks, empty>> \in { <<ks, empty>> \in (SUBSET RequiredVars) \X (SUBSET RequiredVars) :
                            empty \subseteq ks } }

EnvTestFiles ==
  { Nothing, Some(EmptyDict),
    Some([k \in RequiredVars |-> "test-value"]) }

(***************************************************************************)
(* State.                                                                  *)
(*   clock       the wall clock, in ticks                                  *)
(*   tenant_id   settings.azure_tenant_id                                  *)
(*   tokens      the session tokens of the client under study, newest      *)
(*               first (the one it got first and the ones refresh gave),   *)
(*               with what is known of where each came from; what a        *)
(*               login, an issue or a presented token leaves does not      *)
(*               depend on the token held before, so the client starts     *)
(*               with none                                                 *)
(*   last        the operation that has just run and its outcome           *)
(*   token_cache EntraIDAuthService._token_cache                           *)
(*   environment settings.environment                                      *)
(*   auth_state  the global AuthState of the frontend                      *)
(*   auth_url    the authorization URL the frontend generated last, if any *)
(*   chat_session the global ChatSession of the frontend                   *)
(*   in_flight   for each worker thread, the send_message call that waits  *)
(*               for the backend's answer, if any                          *)
(***************************************************************************)
NoOp == [op |-> "none"]

\* settings.environment: the default, and a deployed environment
Environments == {"development", "production"}

Issued(token, user_data, now_exp, now_iat) ==
  [jwt |-> token.access_token, issued |-> TRUE, response |-> token,
   user_data |-> user_data, now_exp |-> now_exp, now_iat |-> now_iat]

Presented(jwt) ==
  [jwt |-> jwt, issued |-> FALSE, response |-> Token(jwt, "bearer", 0),
   user_data |-> EmptyDict, now_exp |-> 0, now_iat |-> 0]

Init ==
  /\ clock = 0
  /\ tenant_id \in {MockTenant, RealTenant}
  /\ environment \in Environments
  /\ tokens = <<>>
  /\ last = NoOp
  /\ token_cache = EmptyDict
  /\ auth_state = AuthState
  /\ auth_url = Nothing
  /\ chat_session = ChatSession
  /\ in_flight = [t \in Threads |-> Nothing]

\* time passes
Tick ==
  /\ clock < MaxClock
  /\ clock' = IF clock = QuietFrom THEN QuietUntil ELSE clock + 1
  /\ last' = NoOp
  /\ UNCHANGED <<tenant_id, tokens, token_cache, environment, auth_state, auth_url,
                   chat_session, in_flight>>

\* create_access_token(user_data); the clock may advance between its two
\* readings of datetime.now(UTC)
CreateAccessToken ==
  \E user_data \in UserDatas, d \in 0..MaxDrift :
    LET token == create_access_token(user_data, clock, clock + d)
    IN /\ clock <= MaxIssueTick
       /\ tokens = <<>>
       /\ clock' = clock + d
       /\ tokens' = <<Issued(token, user_data, clock, clock + d)>>
       /\ last' = [op |-> "create_access_token", out |-> Ret(token)]
       /\ UNCHANGED <<tenant_id, token_cache, environment, auth_state, auth_url,
                   chat_session, in_flight>>

\* a client comes with a token the service did not issue
PresentToken ==
  \E jwt \in PresentedTokens :
    /\ clock <= MaxIssueTick
    /\ tokens = <<>>
    /\ tokens' = <<Presented(jwt)>>
    /\ last' = NoOp
    /\ UNCHANGED <<clock, tenant_id, token_cache, environment, auth_state, auth_url,
                   chat_session, in_flight>>

\* verify_token(token) on a token the client holds
VerifyToken ==
  \E i \in 1..Len(tokens) :
    /\ last' = [op |-> "verify_token", jwt |-> tokens[i].jwt, at |-> clock,
                out |-> verify_token(tokens[i].jwt, clock)]
    /\ UNCHANGED <<clock, tenant_id, tokens, token_cache, environment, auth_state, auth_url,
                   chat_session, in_flight>>

\* POST /token with an external token
Login ==
  \E azure_token \in AzureTokens, d \in 0..MaxDrift :
    LET out == login(tenant_id, azure_token, clock, clock + d)
        ok == out.raised = NoExc
    IN /\ clock <= MaxIssueTick
       /\ tokens = <<>>
       /\ ~ok => d = 0
       /\ clock' = clock + d
       /\ tokens' = IF ok
                      THEN <<Issued(out.value,
                                    validate_azure_token(tenant_id, azure_token, clock).value,
                                    clock, clock + d)>>
                      ELSE tokens
       /\ last' = [op |-> "login", azure_token |-> azure_token, at |-> clock, out |-> out]
       /\ UNCHANGED <<tenant_id, token_cache, environment, auth_state, auth_url,
                   chat_session, in_flight>>

\* GET /me with the token the client holds
CurrentIdentity ==
  /\ tokens # <<>>
  /\ last' = [op |-> "current_identity", jwt |-> tokens[1].jwt, at |-> clock,
              out |-> current_identity(tokens[1].jwt, clock)]
  /\ UNCHANGED <<clock, tenant_id, tokens, token_cache, environment, auth_state, auth_url,
                   chat_session, in_flight>>

\* POST /refresh with the token the client holds; the token it replaces
\* stays in the world (nothing takes it back)
Refresh ==
  \E d \in 0..MaxDrift :
    LET current_user == current_identity(tokens[1].jwt, clock)
        ok == current_user.raised = NoExc
        out == IF ok THEN refresh_token(current_user.value, clock, clock + d)
                     ELSE current_user
    IN /\ tokens # <<>>
       /\ Len(tokens) < MaxTokens
       /\ clock <= MaxIssueTick
       /\ ~ok => d = 0
       /\ clock' = clock + d
       /\ tokens' = IF ok
                      THEN <<Issued(out.value,
                                    [k \in {"sub", "email", "name"} |->
                                       out.value.access_token.payload[k]],
                                    clock, clock + d)>> \o tokens
                      ELSE tokens
       /\ last' = [op |-> "refresh", jwt |-> tokens[1].jwt, at |-> clock, out |-> out]
       /\ UNCHANGED <<tenant_id, token_cache, environment, auth_state, auth_url,
                   chat_session, in_flight>>

\* validate_azure_token(token)
ValidateAzureToken ==
  \E azure_token \in AzureTokens :
    /\ last' = [op |-> "validate_azure_token", azure_token |-> azure_token,
                out |-> validate_azure_token(tenant_id, azure_token, clock)]
    /\ UNCHANGED <<clock, tenant_id, tokens, token_cache, environment, auth_state, auth_url,
                   chat_session, in_flight>>

\* get_user_from_azure_token(azure_token)
GetUserFromAzureToken ==
  \E azure_token \in AzureTokens :
    /\ last' = [op |-> "get_user_from_azure_token", azure_token |-> azure_token,
                out |-> get_user_from_azure_token(tenant_id, azure_token, clock)]
    /\ UNCHANGED <<clock, tenant_id, tokens, token_cache, environment, auth_state, auth_url,
                   chat_session, in_flight>>

\* get_auth_url(state)
GetAuthUrl ==
  \E state \in States, fault \in {NoExc} \cup LibraryFaults :
    LET out == get_auth_url(state, fault)
    IN /\ auth_url' = IF out.raised = NoExc THEN Some(out.value) ELSE auth_url
       /\ last' = [op |-> "get_auth_url", state |-> state, fault |-> fault,
                   out |-> out]
       /\ UNCHANGED <<clock, tenant_id, environment, tokens, token_cache, auth_state,
                   chat_session, in_flight>>

\* exchange_code_for_token(code, state)
ExchangeCodeForToken ==
  \E code \in Codes, state \in States, response \in FreshResponses(clock) :
    \E r \in {exchange_code_for_token(token_cache, code, state, response)} :
       /\ token_cache' = r.cache
       /\ last' = [op |-> "exchange_code_for_token", code |-> code, state |-> state,
                   response |-> response, cache_before |-> token_cache,
                   requests |-> r.requests, out |-> r.out]
       /\ UNCHANGED <<clock, tenant_id, environment, tokens, auth_state, auth_url,
                   chat_session, in_flight>>

\* EntraIDAuthService.refresh_token(user_id)
AuthServiceRefreshToken ==
  \E user_id \in UserIds, response \in FreshResponses(clock) :
    \E r \in {auth_service_refresh_token(token_cache, user_id, response)} :
       /\ r.requests = <<>> => response = NoResponse
       /\ token_cache' = r.cache
       /\ last' = [op |-> "auth_service_refresh_token", user_id |-> user_id,
                   response |-> response, cache_before |-> token_cache,
                   requests |-> r.requests, out |-> r.out]
       /\ UNCHANGED <<clock, tenant_id, environment, tokens, auth_state, auth_url,
                   chat_session, in_flight>>

\* validate_token(access_token)
ValidateToken ==
  \E access_token \in AccessTokens :
    /\ last' = [op |-> "validate_token", access_token |-> access_token,
                at |-> clock, out |-> validate_token(access_token, clock)]
    /\ UNCHANGED <<clock, tenant_id, environment, tokens, token_cache, auth_state,
                   auth_url,
                   chat_session, in_flight>>

\* get_user_info(access_token)
GetUserInfo ==
  \E access_token \in AccessTokens :
    /\ last' = [op |-> "get_user_info", access_token |-> access_token,
                at |-> clock, out |-> get_user_info(access_token, clock)]
    /\ UNCHANGED <<clock, tenant_id, environment, tokens, token_cache, auth_state,
                   auth_url,
                   chat_session, in_flight>>

\* EntraIDAuthService.logout(user_id)
AuthServiceLogout ==
  \E user_id \in UserIds :
    /\ token_cache' = auth_service_logout(token_cache, user_id)
    /\ last' = [op |-> "auth_service_logout", user_id |-> user_id,
                cache_before |-> token_cache, out |-> RetNone]
    /\ UNCHANGED <<clock, tenant_id, environment, tokens, auth_state, auth_url,
                   chat_session, in_flight>>

\* the callback URL changes: handle_auth_callback(url)
HandleAuthCallback ==
  \E url \in CallbackUrls, response \in FreshResponses(clock) :
    \E r \in {handle_auth_callback(auth_state, token_cache, url, response, clock)} :
       /\ r.requests = <<>> => response = NoResponse
       /\ auth_state' = r.auth_state
       /\ token_cache' = r.cache
       /\ last' = [op |-> "handle_auth_callback", url |-> url,
                   response |-> response,
                   requests |-> r.requests, at |-> clock,
                   out |-> [success |-> r.success, message |-> r.message]]
       /\ UNCHANGED <<clock, tenant_id, environment, tokens, auth_url,
                   chat_session, in_flight>>

\* the logout button: AuthState.logout()
Logout ==
  LET r == AuthState_logout(auth_state, token_cache)
  IN /\ auth_state' = r.auth_state
     /\ token_cache' = r.cache
     /\ last' = [op |-> "logout", out |-> RetNone]
     /\ UNCHANGED <<clock, tenant_id, environment, tokens, auth_url,
                   chat_session, in_flight>>

AllIdle == \A t \in Threads : in_flight[t] = Nothing

\* the chat page loads: initialize_chat()
InitializeChat ==
  /\ chat_session' = initialize_api_client(chat_session, auth_state)
  /\ last' = [op |-> "initialize_chat",
              out |-> IF chat_session'.api_client # Nothing
                        THEN <<"Ready", " - Chat initialized successfully">>
                        ELSE <<"Error", " - Authentication required">>]
  /\ UNCHANGED <<clock, tenant_id, environment, tokens, token_cache, auth_state,
                 auth_url, in_flight>>

\* the send button or the enter key, handled by worker thread t:
\* process_message(message, history), wrapped by require_authentication, up
\* to the await inside send_message.  The chatbot history the browser holds
\* passes through the handler and is no state of the frontend.
ProcessMessage(t) ==
  \E message \in UserMessages :
    \E r \in {send_message_begin(chat_session, auth_state, message)} :
      /\ in_flight[t] = Nothing
      /\ Len(chat_session.messages) < MaxMessages
      /\ IF ~is_authenticated(auth_state)
           THEN /\ last' = [op |-> "process_message", thread |-> t,
                            message |-> message, request |-> Nothing,
                            out |-> <<"Authentication required. Please log in first.">>]
                /\ UNCHANGED <<chat_session, in_flight>>
         ELSE IF message = ""
           THEN /\ last' = [op |-> "process_message", thread |-> t,
                            message |-> message, request |-> Nothing,
                            out |-> <<"Please enter a message">>]
                /\ UNCHANGED <<chat_session, in_flight>>
         ELSE /\ chat_session' = r.session
              /\ in_flight' = [in_flight EXCEPT ![t] =
                                 IF r.request # Nothing THEN Some(message) ELSE Nothing]
              /\ last' = [op |-> "process_message", thread |-> t,
                          message |-> message, request |-> r.request,
                          out |-> IF r.out # Nothing THEN r.out[1].value
                                                     ELSE <<"awaiting">>]
      /\ UNCHANGED <<clock, tenant_id, environment, tokens, token_cache, auth_state,
                     auth_url>>

\* the backend's answer reaches the send_message call of thread t, which
\* finishes, and process_message returns
MessageAnswered(t) ==
  /\ in_flight[t] # Nothing
  /\ \E response \in BackendResponses(in_flight[t][1]) :
       \E r \in {send_message_end(chat_session, response)} :
         /\ chat_session' = r.session
         /\ in_flight' = [in_flight EXCEPT ![t] = Nothing]
         /\ last' = [op |-> "message_answered", thread |-> t,
                     message |-> in_flight[t][1], response |-> response,
                     out |-> r.out.value]
  /\ UNCHANGED <<clock, tenant_id, environment, tokens, token_cache, auth_state,
                 auth_url>>

\* the clear button: clear_chat()
ClearChat ==
  /\ chat_session' = clear_history(chat_session)
  /\ last' = [op |-> "clear_chat", out |-> <<"Chat cleared">>]
  /\ UNCHANGED <<clock, tenant_id, environment, tokens, token_cache, auth_state,
                 auth_url, in_flight>>

\* the refresh button: refresh_status(), that is check_backend_status()
RefreshStatus ==
  \E health \in HealthResponses :
    LET session == IF chat_session.api_client = Nothing
                     THEN initialize_api_client(chat_session, auth_state)
                     ELSE chat_session
        sent == session.api_client # Nothing
    IN /\ ~sent => health = Ret([status |-> "healthy"])
       /\ chat_session' = session
       /\ last' = [op |-> "refresh_status",
                   request |-> IF sent THEN Some(HealthRequest) ELSE Nothing,
                   out |-> IF ~sent THEN <<"Error", " - Not authenticated">>
                           ELSE IF health.raised # NoExc
                             THEN <<"Error", " - Backend unavailable: ">> \o health.value
                           ELSE IF Get(health.value, "status", None) = "healthy"
                             THEN <<"Connected", " - Backend API is healthy">>
                           ELSE <<"Warning", " - Backend API issues detected">>]
       /\ UNCHANGED <<clock, tenant_id, environment, tokens, token_cache, auth_state,
                      auth_url, in_flight>>

\* the backend, and the logout button of the frontend
Next ==
  \/ Tick
  \/ CreateAccessToken
  \/ PresentToken
  \/ VerifyToken
  \/ Login
  \/ CurrentIdentity
  \/ Refresh
  \/ Logout

Spec == Init /\ [][Next]_vars

\* the direct-token strategy on its own
ExchangerNext ==
  \/ ValidateAzureToken
  \/ GetUserFromAzureToken

ExchangerSpec == Init /\ [][ExchangerNext]_vars

\* the frontend; the settings of the backend play no part in it
FrontendInit == Init /\ tenant_id = RealTenant /\ environment = "production"

\* the authentication service of the frontend, the AuthState and the callback
FrontendNext ==
  \/ GetAuthUrl
  \/ ExchangeCodeForToken
  \/ AuthServiceRefreshToken
  \/ ValidateToken
  \/ GetUserInfo
  \/ AuthServiceLogout
  \/ HandleAuthCallback
  \/ Logout

FrontendSpec == FrontendInit /\ [][FrontendNext]_vars

\* the token cache of EntraIDAuthService and the three methods that touch it
TokenCacheNext ==
  \/ ExchangeCodeForToken
  \/ AuthServiceRefreshToken
  \/ AuthServiceLogout

TokenCacheSpec == FrontendInit /\ [][TokenCacheNext]_vars

\* access tokens are validated while time passes
ValidationNext ==
  \/ Tick
  \/ ValidateToken
  \/ GetUserInfo

ValidationSpec == FrontendInit /\ [][ValidationNext]_vars

\* a session of the frontend, from the login callback to the logout, while
\* the access token of the provider runs out
SessionNext ==
  \/ clock <= PresentedExp * TicksPerSecond /\ Tick
  \/ GetAuthUrl
  \/ HandleAuthCallback
  \/ Logout

SessionSpec == FrontendInit /\ [][SessionNext]_vars

\* the chat of the frontend: the login callback and the logout button change
\* the AuthState while the chat page is open in a browser
ChatNext ==
  \/ AllIdle /\ chat_session.messages = <<>> /\ HandleAuthCallback
  \/ Logout
  \/ InitializeChat
  \/ \E t \in Threads : ProcessMessage(t)
  \/ \E t \in Threads : MessageAnswered(t)
  \/ ClearChat
  \/ RefreshStatus

ChatSpec == FrontendInit /\ [][ChatNext]_vars

\* the backend process starts: app.core.config is imported
Startup ==
  \E environ \in Environs, env_test \in EnvTestFiles :
    /\ last' = [op |-> "startup", environ |-> environ, env_test |-> env_test,
                out |-> load_settings(environ, EmptyDict, env_test)]
    /\ UNCHANGED <<clock, tenant_id, environment, tokens, token_cache, auth_state,
                   auth_url,
                   chat_session, in_flight>>

StartupNext ==
  \/ Startup

StartupSpec == Init /\ [][StartupNext]_vars

\* the components that call into PyJWT and MSAL.  The backend and the
\* frontend are separate processes that share no state: a behaviour follows
\* the calls of one of them, and the backend validates the external token
\* before the client holds a session token.
BackendSide == token_cache = EmptyDict /\ auth_state = AuthState /\ auth_url = Nothing
FrontendSide == tokens = <<>> /\ tenant_id = RealTenant /\ environment = "production"

ComponentsNext ==
  \/ BackendSide /\ tokens = <<>> /\ ValidateAzureToken
  \/ BackendSide /\ PresentToken
  \/ BackendSide /\ VerifyToken
  \/ FrontendSide /\ FrontendNext

ComponentsSpec == Init /\ [][ComponentsNext]_vars

(***************************************************************************)
(* Properties.                                                             *)
(***************************************************************************)
Accepted(out) == out.raised = NoExc /\ ~out.none
ReturnedNone(out) == out.raised = NoExc /\ out.none

SignatureVerifies(jwt) == jwt.wf /\ jwt.key = jwt_secret
AlgorithmConfigured(jwt) == jwt.wf /\ jwt.alg = jwt_algorithm
HasClaim(jwt, k) == jwt.wf /\ k \in DOMAIN jwt.payload
ExpInFuture(jwt, now) ==
  HasClaim(jwt, "exp") /\ jwt.payload["exp"] * TicksPerSecond > now
IatNotInFuture(jwt, now) ==
  HasClaim(jwt, "iat") => jwt.payload["iat"] * TicksPerSecond <= now
StringOrAbsent(jwt, k) == HasClaim(jwt, k) => jwt.payload[k] # None

\* an Identity as TokenIssuer takes it: subject populated, email and name
\* strings, possibly empty
ValidIdentity(user_data) ==
  /\ user_data["sub"] \notin {None, ""}
  /\ user_data["email"] # None
  /\ user_data["name"] # None

VerifiedIssued ==
  /\ last.op = "verify_token"
  /\ tokens # <<>>
  /\ tokens[1].issued
  /\ last.jwt = tokens[1].jwt

\* C1: verify_token applied, before expiry, to the access_token that
\* create_access_token made for a valid identity returns a User whose id,
\* email and name are the identity's sub, email and name.
RoundTrip ==
  ( /\ VerifiedIssued
    /\ ValidIdentity(tokens[1].user_data)
    /\ ExpInFuture(last.jwt, last.at) )
  => /\ Accepted(last.out)
     /\ last.out.value.id = tokens[1].user_data["sub"]
     /\ last.out.value.email = tokens[1].user_data["email"]
     /\ last.out.value.name = tokens[1].user_data["name"]

RoundTripWitness ==
  /\ VerifiedIssued
  /\ tokens[1].user_data = [sub |-> "u1", email |-> "", name |-> "User One"]
  /\ last.at > tokens[1].now_iat
  /\ ExpInFuture(last.jwt, last.at)
  /\ Accepted(last.out)
  /\ last.out.value.email = ""

\* C2 as stated: verify_token accepts a token if and only if its signature
\* verifies under the secret key, its algorithm is the configured one and
\* its expiry timestamp is in the future.
ValidIffSignedAndUnexpired ==
  last.op = "verify_token" =>
    ( Accepted(last.out) <=>
        /\ SignatureVerifies(last.jwt)
        /\ AlgorithmConfigured(last.jwt)
        /\ ExpInFuture(last.jwt, last.at) )

\* C2 amended: verify_token accepts a token if and only if its signature
\* verifies under the secret key, its algorithm is the configured one, its
\* exp claim (if any) is in the future, its iat claim (if any) is not in the
\* future, it carries a non-null sub claim and its email and name claims
\* are absent or strings; nothing but the token, the configuration and the
\* clock enters.
ValidIffSignedUnexpiredAndIdentified ==
  last.op = "verify_token" =>
    ( Accepted(last.out) <=>
        /\ SignatureVerifies(last.jwt)
        /\ AlgorithmConfigured(last.jwt)
        /\ (HasClaim(last.jwt, "exp") => ExpInFuture(last.jwt, last.at))
        /\ IatNotInFuture(last.jwt, last.at)
        /\ HasClaim(last.jwt, "sub")
        /\ last.jwt.payload["sub"] # None
        /\ StringOrAbsent(last.jwt, "email")
        /\ StringOrAbsent(last.jwt, "name") )

\* a correctly signed token without exp is accepted long after it was presented
ValidIffWitness ==
  /\ last.op = "verify_token"
  /\ ~tokens[1].issued
  /\ SignatureVerifies(last.jwt)
  /\ AlgorithmConfigured(last.jwt)
  /\ ~HasClaim(last.jwt, "exp")
  /\ ~HasClaim(last.jwt, "email")
  /\ last.at > MaxIssueTick
  /\ Accepted(last.out)

\* C3: a token signed with another key or another algorithm is answered
\* None, whatever its claims.
ForeignSignatureRejected ==
  ( /\ last.op = "verify_token"
    /\ last.jwt.wf
    /\ (last.jwt.key # jwt_secret \/ last.jwt.alg # jwt_algorithm) )
  => ReturnedNone(last.out)

ForeignSignatureWitness ==
  /\ last.op = "verify_token"
  /\ last.jwt.wf
  /\ last.jwt.key = OtherSecret
  /\ last.jwt.alg = jwt_algorithm
  /\ last.jwt.payload = [sub |-> "u1", email |-> "u1@example.com", name |-> "User One"]
  /\ ReturnedNone(last.out)

\* C4 as stated: a token issued with a ttl of N minutes verifies at every
\* clock value from issuance up to issued_at + N minutes (the boundary
\* excluded) and fails at every clock value beyond it, issued_at being the
\* iat claim of the token.
VerifiesUntilIssuedAtPlusTtl ==
  ( VerifiedIssued /\ ValidIdentity(tokens[1].user_data) ) =>
    LET limit == ( last.jwt.payload["iat"]
                   + jwt_expire_minutes * SecondsPerMinute ) * TicksPerSecond
    IN /\ last.at < limit => Accepted(last.out)
       /\ last.at > limit => ReturnedNone(last.out)

\* C5: verify_token never raises; where its try block raises, it returns None.
VerifyNeverRaises ==
  last.op = "verify_token" =>
    /\ last.out.raised = NoExc
    /\ verify_token_body(last.jwt, last.at).raised # NoExc => last.out.none

\* claims that cannot be turned into a User: the error of the model class
\* is swallowed
VerifyNeverRaisesWitness ==
  /\ last.op = "verify_token"
  /\ verify_token_body(last.jwt, last.at).raised = "ValidationError"
  /\ ReturnedNone(last.out)

\* C6: a correctly signed, unexpired token without sub claim is answered
\* None: no exception, no identity with an empty id.
MissingSubjectRejected ==
  ( /\ last.op = "verify_token"
    /\ SignatureVerifies(last.jwt)
    /\ AlgorithmConfigured(last.jwt)
    /\ (HasClaim(last.jwt, "exp") => ExpInFuture(last.jwt, last.at))
    /\ IatNotInFuture(last.jwt, last.at)
    /\ ~HasClaim(last.jwt, "sub") )
  => ReturnedNone(last.out)

MissingSubjectWitness ==
  /\ last.op = "verify_token"
  /\ SignatureVerifies(last.jwt)
  /\ AlgorithmConfigured(last.jwt)
  /\ ExpInFuture(last.jwt, last.at)
  /\ last.jwt.payload = [email |-> "u1@example.com", name |-> "User One", exp |-> PresentedExp]
  /\ ReturnedNone(last.out)

\* C7: every Token from create_access_token has token_type "bearer",
\* expires_in = ttl minutes * 60, and an exp claim that lies the ttl after
\* its iat claim.
TokenLifetime ==
  last.op = "create_access_token" =>
    LET token == last.out.value
    IN /\ token.token_type = "bearer"
       /\ token.expires_in = jwt_expire_minutes * 60
       /\ token.access_token.payload["exp"] - token.access_token.payload["iat"]
            = jwt_expire_minutes * 60

EmailOrUniqueName(payload) ==
  IF "email" \in DOMAIN payload THEN payload["email"]
  ELSE Get(payload, "unique_name", None)

\* C8: with a non-mock tenant the direct-token strategy maps the claims of
\* an external token to the identity without verifying its signature:
\* sub, name and preferred_username are taken over, email is the email claim,
\* or unique_name when there is no email claim; {sub: u1, email:
\* u1@example.com, name: User One} gives Identity(u1, u1@example.com, User One).
DirectTokenMapping ==
  LET payload == last.azure_token.payload
      real == ~startswith(tenant_id, "mock") /\ last.azure_token.wf
  IN /\ (last.op = "validate_azure_token" /\ real) =>
          /\ Accepted(last.out)
          /\ last.out.value["sub"] = Get(payload, "sub", None)
          /\ last.out.value["email"] = EmailOrUniqueName(payload)
          /\ last.out.value["name"] = Get(payload, "name", None)
          /\ last.out.value["preferred_username"]
               = Get(payload, "preferred_username", None)
     /\ ( /\ last.op = "get_user_from_azure_token" /\ real
          /\ Get(payload, "sub", None) # None
          /\ EmailOrUniqueName(payload) # None
          /\ Get(payload, "name", None) # None ) =>
          /\ Accepted(last.out)
          /\ last.out.value.id = payload["sub"]
          /\ last.out.value.email = EmailOrUniqueName(payload)
          /\ last.out.value.name = payload["name"]
          /\ last.out.value.preferred_username
               = Get(payload, "preferred_username", None)
     /\ ( /\ last.op = "get_user_from_azure_token" /\ real
          /\ payload = [sub |-> "u1", email |-> "u1@example.com", name |-> "User One"] ) =>
          last.out = Ret([id |-> "u1", email |-> "u1@example.com",
                          name |-> "User One", preferred_username |-> None])

\* a token signed with a key that is not the provider's, carrying unique_name
\* and no email claim
DirectTokenMappingWitness ==
  /\ last.op = "get_user_from_azure_token"
  /\ ~startswith(tenant_id, "mock")
  /\ last.azure_token.wf
  /\ last.azure_token.key = OtherSecret
  /\ last.azure_token.payload
       = [sub |-> "u1", unique_name |-> "u1@contoso.com", name |-> "User One"]
  /\ Accepted(last.out)
  /\ last.out.value.email = "u1@contoso.com"

Unresolved(tenant, azure_token, now) ==
  Falsy(validate_azure_token(tenant, azure_token, now))

ProviderDetail(result) ==
  { result[k] : k \in DOMAIN result \cap {"error", "error_description"} }

\* C10: when the provider answers the exchange with an error payload (no
\* access_token), exchange_code_for_token raises AuthenticationError whose
\* message starts with "Token exchange failed" and contains the provider's
\* error code or description; the token cache is left as it was.
ProviderErrorSurfaced ==
  ( /\ last.op = "exchange_code_for_token"
    /\ last.response.raised = NoExc
    /\ "access_token" \notin DOMAIN last.response.value
    /\ "error" \in DOMAIN last.response.value )
  => /\ last.out.raised = "AuthenticationError"
     /\ startswith(last.out.value, "Token exchange failed: ")
     /\ \E i \in DOMAIN last.out.value :
          last.out.value[i] \in ProviderDetail(last.response.value)
     /\ token_cache = last.cache_before

\* C11: no exception of PyJWT or MSAL leaves the authentication components:
\* get_auth_url, exchange_code_for_token, validate_token and get_user_info
\* raise nothing but AuthenticationError; validate_azure_token, verify_token,
\* the frontend's refresh_token and logout raise nothing, whatever the
\* library call raises.
LibraryExceptionsContained ==
  /\ last.op \in {"get_auth_url", "exchange_code_for_token", "validate_token",
                  "get_user_info"}
       => last.out.raised \in {NoExc, "AuthenticationError"}
  /\ last.op \in {"validate_azure_token", "verify_token",
                  "auth_service_refresh_token", "auth_service_logout"}
       => last.out.raised = NoExc

LibraryExceptionsContainedWitness ==
  /\ last.op = "get_auth_url"
  /\ last.fault \in LibraryFaults
  /\ last.out.raised = "AuthenticationError"
  /\ last.out.value[1] = "Failed to generate auth URL: "

\* C12: a call of exchange_code_for_token, and a login callback that uses
\* it, sends at most one token request to the identity provider, whether the
\* provider answers with a token, with an error or not at all: no retry.
SingleTokenRequest ==
  /\ last.op = "exchange_code_for_token"
       => last.requests = <<AuthorizationCodeRequest(last.code)>>
  /\ last.op = "handle_auth_callback" => Len(last.requests) <= 1

SingleTokenRequestWitness ==
  /\ last.op = "handle_auth_callback"
  /\ last.response.raised = NoExc
  /\ "error" \in DOMAIN last.response.value
  /\ ~last.out.success
  /\ Len(last.requests) = 1

NotExpired(jwt, now) == ~HasClaim(jwt, "exp") \/ ExpInFuture(jwt, now)

\* C14: nothing revokes a session token: a token that verifies keeps
\* verifying after every step (a logout, a refresh that issued a newer
\* token, the passing of time) for as long as its own expiry is ahead, and a
\* logout leaves the tokens and the settings of the backend as they were.
NoRevocation ==
  [][ /\ \A i \in 1..Len(tokens) :
           ( Accepted(verify_token(tokens[i].jwt, clock))
             /\ NotExpired(tokens[i].jwt, clock') )
           => /\ \E j \in 1..Len(tokens') : tokens'[j] = tokens[i]
              /\ Accepted(verify_token(tokens[i].jwt, clock'))
      /\ last'.op = "logout" => UNCHANGED <<tokens, tenant_id, environment, clock,
                   chat_session, in_flight>>
    ]_vars

\* after a refresh and a logout the replaced token still verifies
NoRevocationWitness ==
  /\ last.op = "logout"
  /\ Len(tokens) = 2
  /\ tokens[2].jwt # tokens[1].jwt
  /\ Accepted(verify_token(tokens[2].jwt, clock))
  /\ clock > tokens[1].now_iat

\* C15: the authentication state is Authenticated only between a successful
\* login and the expiry of its token or a logout: while is_authenticated()
\* holds the state carries the identity and the token of the login and that
\* token has not expired, and after a logout is_authenticated() is false and
\* access_token and user_info are cleared.
AuthStateFollowsLoginExpiryLogout ==
  /\ is_authenticated(auth_state) =>
       /\ auth_state.user_info # Nothing
       /\ NotExpired(auth_state.access_token[1], clock)
  /\ last.op = "logout" =>
       /\ ~is_authenticated(auth_state)
       /\ auth_state.access_token = Nothing
       /\ auth_state.user_info = Nothing

\* C16: the issue, verify and exchange operations write no state that calls
\* share: a step of verify_token, validate_azure_token, validate_token or
\* exchange_code_for_token leaves the token cache, the AuthState and the
\* settings as they were (so that concurrent calls cannot affect each other).
NoSharedStateWritten ==
  [][ last'.op \in {"verify_token", "validate_azure_token", "validate_token",
                    "exchange_code_for_token"}
        => UNCHANGED <<token_cache, auth_state, tenant_id, environment,
                   chat_session, in_flight>> ]_vars

\* C17: a failed authentication shows one generic message whatever the cause:
\* when the login callback fails after asking the provider, every other
\* answer of the provider that makes the same callback fail gives the same
\* message.
GenericFailureMessage ==
  ( last.op = "handle_auth_callback" /\ ~last.out.success /\ last.requests # <<>> )
    => \A response \in FreshResponses(last.at) :
         LET other == handle_auth_callback(auth_state, token_cache, last.url,
                                           response, last.at)
         IN ~other.success => other.message = last.out.message

\* a required setting that no source gives, or gives empty
Unset(environ, env_test, v) ==
  LET given == IF env_test = Nothing THEN environ ELSE Sources(environ, env_test[1])
  IN v \notin DOMAIN given \/ given[v] = ""

\* C18: when a required setting (tenant id, client id, signing secret) is
\* missing or empty at startup, the start halts with an error that names the
\* required variables, and no settings object is left to serve requests.
StartupHaltsOnUnsetSetting ==
  ( last.op = "startup"
    /\ \E v \in RequiredVars : Unset(last.environ, last.env_test, v) )
  => /\ last.out.raised = "RuntimeError"
     /\ last.out.value[2] = "AZURE_TENANT_ID, AZURE_CLIENT_ID, JWT_SECRET_KEY. "

\* C19: outside local development and testing the mock identity is not
\* handed out and a login succeeds only with a genuine external credential:
\* in a deployed environment a successful login is for a token the identity
\* provider signed, and its subject is not the mock user.
MockIdentityOnlyInDevelopment ==
  ( last.op = "login" /\ environment = "production" /\ Accepted(last.out) )
  => /\ last.out.value.access_token.payload["sub"] # MockUserInfo.sub
     /\ last.azure_token.wf
     /\ last.azure_token.key = AzureKey

\* C20: the callback's state is checked against the state of the
\* authorization URL: an exchange, or a login callback, that comes with a
\* state different from the one given to get_auth_url yields no token and
\* logs nobody in.
StateMismatchRejected ==
  /\ ( last.op = "exchange_code_for_token" /\ auth_url # Nothing
       /\ last.state # auth_url[1].state )
     => last.out.raised = "AuthenticationError"
  /\ ( last.op = "handle_auth_callback" /\ auth_url # Nothing
       /\ Get(last.url.query, "state", None) # auth_url[1].state )
     => ~last.out.success

(***************************************************************************)
(* The token cache of the frontend.                                        *)
(***************************************************************************)
\* the user id an access token carries, if it carries one
Subject(access_token) ==
  IF access_token.wf /\ "sub" \in DOMAIN access_token.payload
    THEN Some(access_token.payload["sub"])
    ELSE Nothing

\* cache_after is cache_before with the entry of user_id set to entry
EntryReplaced(cache_before, cache_after, user_id, entry) ==
  /\ DOMAIN cache_after = DOMAIN cache_before \cup {user_id}
  /\ cache_after[user_id] = entry
  /\ \A u \in DOMAIN cache_before \ {user_id} : cache_after[u] = cache_before[u]

\* C21: when the provider answers with a result that contains access_token,
\* exchange_code_for_token returns exactly that result; if the access token
\* carries a user id the result is in the cache under that id, in place of
\* the user's earlier entry, and every other user's entry is what it was; if
\* it carries none the cache is what it was.
ExchangeCachesResult ==
  ( /\ last.op = "exchange_code_for_token"
    /\ last.response.raised = NoExc
    /\ "access_token" \in DOMAIN last.response.value )
  => LET result == last.response.value
         subject == Subject(result["access_token"])
     IN /\ last.out = Ret(result)
        /\ subject # Nothing
             => EntryReplaced(last.cache_before, token_cache, subject[1], result)
        /\ subject = Nothing => token_cache = last.cache_before

\* an exchange for u1 replaced u1's earlier entry while u2 had an entry
ExchangeCachesResultWitness ==
  /\ last.op = "exchange_code_for_token"
  /\ last.out.raised = NoExc
  /\ DOMAIN last.cache_before = {"u1", "u2"}
  /\ Subject(last.out.value["access_token"]) = Some("u1")
  /\ last.cache_before["u1"] # last.out.value
  /\ token_cache["u1"] = last.out.value

\* refresh_token(user_id) has nothing to refresh with: no entry of user_id, or
\* an entry without refresh_token
NothingToRefresh(cache, user_id) ==
  user_id \notin DOMAIN cache \/ "refresh_token" \notin DOMAIN cache[user_id]

\* C22: when the cache has no entry for user_id, or the entry holds no
\* refresh_token, refresh_token(user_id) returns None, sends no request to
\* the identity provider and leaves the token cache as it was.
RefreshWithoutTokenIsNoOp ==
  ( /\ last.op = "auth_service_refresh_token"
    /\ NothingToRefresh(last.cache_before, last.user_id) )
  => /\ last.out = RetNone
     /\ last.requests = <<>>
     /\ token_cache = last.cache_before

\* refresh_token ran for a user whose entry holds no refresh_token
RefreshWithoutTokenWitness ==
  /\ last.op = "auth_service_refresh_token"
  /\ last.user_id \in DOMAIN last.cache_before
  /\ "refresh_token" \notin DOMAIN last.cache_before[last.user_id]
  /\ last.out = RetNone

\* C23: when the cache holds a refresh token for the user, refresh_token
\* puts the provider's result in place of the user's entry and returns it if
\* and only if the result contains access_token; when the provider answers
\* with an error payload or raises, refresh_token returns None and the cache
\* is what it was.
RefreshReplacesEntryOnSuccessOnly ==
  ( /\ last.op = "auth_service_refresh_token"
    /\ ~NothingToRefresh(last.cache_before, last.user_id) )
  => IF last.response.raised = NoExc /\ "access_token" \in DOMAIN last.response.value
       THEN /\ last.out = Ret(last.response.value)
            /\ EntryReplaced(last.cache_before, token_cache, last.user_id,
                             last.response.value)
       ELSE /\ last.out = RetNone
            /\ token_cache = last.cache_before

\* a refresh put a different result in place of the user's entry
RefreshReplacesEntryWitness ==
  /\ last.op = "auth_service_refresh_token"
  /\ ~NothingToRefresh(last.cache_before, last.user_id)
  /\ last.out.raised = NoExc /\ ~last.out.none
  /\ token_cache[last.user_id] = last.out.value
  /\ last.cache_before[last.user_id] # last.out.value

\* C24: logout(user_id) takes the entry of user_id out of the cache and
\* leaves every other entry as it was (nothing changes when there is no
\* entry) and does not raise; while user_id has no entry refresh_token(user_id)
\* returns None and adds none, and only a successful exchange_code_for_token
\* for that user gives the user an entry again.
LoggedOutUntilNextExchange ==
  [][ /\ last'.op = "auth_service_logout"
        => /\ last'.out = RetNone
           /\ DOMAIN token_cache' = DOMAIN token_cache \ {last'.user_id}
           /\ \A u \in DOMAIN token_cache' : token_cache'[u] = token_cache[u]
      /\ \A u \in UserIds :
           /\ ( /\ u \notin DOMAIN token_cache
                /\ last'.op = "auth_service_refresh_token"
                /\ last'.user_id = u )
              => last'.out = RetNone
           /\ (u \notin DOMAIN token_cache /\ u \in DOMAIN token_cache')
              => /\ last'.op = "exchange_code_for_token"
                 /\ last'.out.raised = NoExc
                 /\ Subject(last'.out.value["access_token"]) = Some(u) ]_vars

\* logout took u1's entry out of a cache that holds an entry of u2
LoggedOutWitness ==
  /\ last.op = "auth_service_logout"
  /\ last.user_id = "u1"
  /\ "u1" \in DOMAIN last.cache_before
  /\ "u1" \notin DOMAIN token_cache
  /\ "u2" \in DOMAIN token_cache

\* the exp claim of an access token has passed at time now
AccessTokenExpired(access_token, now) ==
  /\ "exp" \in DOMAIN access_token.payload
  /\ access_token.payload["exp"] * TicksPerSecond <= now

\* the pieces of a message
Pieces(message) == { message[i] : i \in 1..Len(message) }

\* C25: validate_token returns the decoded payload unchanged when the aud
\* claim is the configured client id; it raises AuthenticationError with a
\* message that contains "Invalid token audience" when aud differs or is
\* absent; an expired access token is rejected with AuthenticationError
\* "Token has expired".
ValidateTokenChecksAudienceAndExpiry ==
  (last.op = "validate_token" /\ last.access_token.wf)
  => LET payload == last.access_token.payload
         expired == AccessTokenExpired(last.access_token, last.at)
     IN IF Get(payload, "aud", None) # azure_client_id
          THEN /\ last.out.raised = "AuthenticationError"
               /\ \/ "Invalid token audience" \in Pieces(last.out.value)
                  \/ expired /\ last.out.value = <<"Token has expired">>
        ELSE IF expired
          THEN last.out = Raise("AuthenticationError", <<"Token has expired">>)
        ELSE last.out = Ret(payload)

\* C27: every token a successful login returns is accepted by verify_token
\* when it is presented right afterwards, whatever claims the external token
\* had, a token without sub, email or name included.
LoginTokenVerifies ==
  (last.op = "login" /\ last.out.raised = NoExc)
  => Accepted(verify_token(last.out.value.access_token, clock))

\* C28: when handle_auth_callback reports failure the AuthState and the token
\* cache are what they were before the call; no token request is sent when
\* the URL carries an error or no code; the AuthState becomes authenticated
\* only when the exchange and get_user_info both succeeded.
CallbackFailureLeavesNoTrace ==
  [][ last'.op = "handle_auth_callback"
      => LET query_params == last'.url.query
             exchanged == /\ last'.response.raised = NoExc
                          /\ "access_token" \in DOMAIN last'.response.value
         IN /\ ~last'.out.success
                 => auth_state' = auth_state /\ token_cache' = token_cache
            /\ ( \/ Truthy(Get(query_params, "error", None))
                 \/ ~Truthy(Get(query_params, "code", None)) )
                 => last'.requests = <<>>
            /\ (~is_authenticated(auth_state) /\ is_authenticated(auth_state'))
                 => /\ last'.out.success
                    /\ exchanged
                    /\ get_user_info(last'.response.value["access_token"],
                                     last'.at).raised = NoExc ]_vars

(***************************************************************************)
(* The chat of the frontend.                                               *)
(***************************************************************************)
\* C29: whenever process_message (through send_message) or the status check
\* sends a request to the backend, the bearer token on the request is the
\* current auth_state.access_token; after a logout, or a later login as
\* another user, no request carries the token of the earlier session.
BearerTokenIsCurrent ==
  ( /\ last.op \in {"process_message", "refresh_status"}
    /\ last.request # Nothing
    /\ "Authorization" \in DOMAIN last.request[1].headers )
  => auth_state.access_token = Some(last.request[1].headers["Authorization"])

\* the contents an assistant message for user_message can have
Answers(user_message) ==
  { Reply(user_message), <<"Sorry, I couldn't process your request.">> }
  \cup { <<"API Error: ">> \o r.value :
           r \in { r \in BackendResponses(user_message) : r.raised # NoExc } }

\* C30: between calls the chat history has even length and its messages come
\* in pairs, a user message directly followed by the assistant message made
\* for it, also when send_message calls overlap in different worker threads
\* or clear_history runs; a send_message without API client adds nothing.
HistoryAlternates ==
  /\ [](AllIdle =>
          LET messages == chat_session.messages
          IN /\ Len(messages) % 2 = 0
             /\ \A i \in 1..Len(messages) :
                  IF i % 2 = 1
                    THEN messages[i].role = "user"
                    ELSE /\ messages[i].role = "assistant"
                         /\ messages[i].content \in Answers(messages[i-1].content))
  /\ [][ (last'.op = "process_message" /\ chat_session.api_client = Nothing)
           => chat_session'.messages = chat_session.messages ]_vars
====
